---- MODULE Spec2Model ----
(***************************************************************************)
(* aldryn_newsblog/models.py: the Article model's save() (author           *)
(* resolution and per-language slug allocation), the module-level          *)
(* LANGUAGE_CODES computation and LatestEntriesPlugin.get_articles().      *)
(*                                                                         *)
(* Strings are sequences of one-character strings.  The database is the    *)
(* Person table, the Article master table and the Article translation      *)
(* table (one row per (master, language_code)).  One in-memory Article     *)
(* instance per element of Objs; each save() call of an instance is cut    *)
(* into its database operations so that calls can interleave.              *)
(*                                                                         *)
(* What the libraries do is taken as follows.  super().save() stores the   *)
(* master row and the translation row of the instance's language in one    *)
(* step, or raises IntegrityError and stores nothing.                      *)
(* Article.objects.language(lang) yields the translations of language      *)
(* lang.  active_translations() keeps the articles that have a translation *)
(* in one of the active languages.  An instance is saved in one language.  *)
(***************************************************************************)
EXTENDS Integers, Sequences, FiniteSets, TLC

VARIABLES
    settings,         \* django.conf.settings: [LANGUAGES, LANGUAGE]
    module,           \* "unloaded" | "loaded" | "ImproperlyConfigured"
    LANGUAGE_CODES,   \* the module-level list, once the module is loaded
    persons,          \* Person table: sequence of [user], the id is the index
    articles,         \* Article master rows: set of [id, author, owner, publishing_date]
    translations,     \* translation rows: set of [master, language_code, title, slug]
    obj,              \* the in-memory Article instances
    pc,               \* where each instance's save() call stands
    result,           \* how each instance's last finished save() ended
    attempts,         \* slugs the current/last save() call handed to super().save()
    queried,          \* languages whose slugs the current/last save() call fetched
    given,            \* [id, author, slug] of the instance when its current/last save() was called
    met,              \* pairs of instances of which two save() calls have overlapped
    shown,            \* what get_articles() returned, until the next save() is called
    allocated         \* instances whose stored slug save() allocated, no other row written since

vars == <<settings, module, LANGUAGE_CODES, persons, articles, translations,
          obj, pc, result, attempts, queried, given, met, shown, allocated>>

(***************************************************************************)
(* Bounds                                                                  *)
(***************************************************************************)
MaxArticles == 3

\* publishing dates are 1..MaxDate
MaxDate == 2

\* the plugin's latest_entries is 0..MaxCount or the field's default
MaxCount == 2

\* LatestEntriesPlugin.latest_entries, default=5 (line 150)
DefaultLatestEntries == 5

\* titles typed in are at most MaxLen characters long
MaxLen == 3

Objs == 1..MaxArticles

(***************************************************************************)
(* Strings                                                                 *)
(***************************************************************************)
WordChars == {"a", "b", "A", "B", "_", "0", "1", "2", "3", "4", "5", "6", "7", "8", "9"}

SpaceChars == {" "}

ToLower(c) == CASE c = "A" -> "a" [] c = "B" -> "b" [] OTHER -> c

RECURSIVE KeepChars(_, _)
KeepChars(s, keep) ==
    IF s = <<>> THEN <<>>
    ELSE IF Head(s) \in keep THEN <<Head(s)>> \o KeepChars(Tail(s), keep)
         ELSE KeepChars(Tail(s), keep)

RECURSIVE LStrip(_)
LStrip(s) ==
    IF s # <<>> /\ Head(s) \in SpaceChars THEN LStrip(Tail(s)) ELSE s

RECURSIVE RStrip(_)
RStrip(s) ==
    IF s # <<>> /\ s[Len(s)] \in SpaceChars
    THEN RStrip(SubSeq(s, 1, Len(s) - 1)) ELSE s

Strip(s) == RStrip(LStrip(s))

LowerStr(s) == [i \in 1..Len(s) |-> ToLower(s[i])]

\* mutant: re.sub('[-\s][-\s]?', '-', s), which shortens a run by pairs
RECURSIVE CollapsePairs(_)
CollapsePairs(s) ==
    IF s = <<>> THEN <<>>
    ELSE IF Head(s) \in SpaceChars \cup {"-"}
         THEN IF Tail(s) # <<>> /\ Head(Tail(s)) \in SpaceChars \cup {"-"}
              THEN <<"-">> \o CollapsePairs(Tail(Tail(s)))
              ELSE <<"-">> \o CollapsePairs(Tail(s))
         ELSE <<Head(s)>> \o CollapsePairs(Tail(s))

\* re.sub('[-\s]+', '-', s): every maximal run of hyphens and spaces becomes one "-"
RECURSIVE CollapseRuns(_)
CollapseRuns(s) ==
    IF s = <<>> THEN <<>>
    ELSE IF Head(s) \in SpaceChars \cup {"-"}
         THEN IF Tail(s) # <<>> /\ Head(Tail(s)) \in SpaceChars \cup {"-"}
              THEN CollapseRuns(Tail(s))
              ELSE <<"-">> \o CollapseRuns(Tail(s))
         ELSE <<Head(s)>> \o CollapseRuns(Tail(s))

\* django.utils.text.slugify: drop what is not [\w\s-], strip, lowercase,
\* then collapse the runs of hyphens and whitespace
default_slugify(s) ==
    CollapseRuns(LowerStr(Strip(KeepChars(s, WordChars \cup SpaceChars \cup {"-"}))))

DigitChars == <<"0", "1", "2", "3", "4", "5", "6", "7", "8", "9">>

\* "%d" % i for i >= 0
RECURSIVE Decimal(_)
Decimal(i) ==
    IF i < 10 THEN <<DigitChars[i + 1]>>
    ELSE Decimal(i \div 10) \o <<DigitChars[(i % 10) + 1]>>

\* Article.slugify(category, i); i = 0 stands for i=None (the loop starts at 1)
slugify(category, i) ==
    IF i = 0 THEN default_slugify(category)
    ELSE default_slugify(category) \o <<"_">> \o Decimal(i)

StartsWith(s, prefix) ==
    /\ Len(prefix) <= Len(s)
    /\ SubSeq(s, 1, Len(prefix)) = prefix

(***************************************************************************)
(* Values                                                                  *)
(***************************************************************************)
Users == {"u1", "u2"}

Langs == {"en", "de"}

\* a title that needs slugifying, and one that is already the first suffixed slug
TitleStory == <<"A", " ", "b">>

TitleStory1 == <<"a", "-", "b", "_", "1">>

\* the characters titles are typed from: a capital letter, white space, a
\* hyphen, an underscore and a character slugify drops
TitleChars == {"A", " ", "-", "_", "!"}

Titles == UNION {[1..n -> TitleChars] : n \in 0..MaxLen}

NoSlug == <<>>

\* the attribute `name` of an instance: <<>> when the instance has none
\* (Article declares title, not name), <<s>> when it was given the value s
NoName == <<>>

\* settings as the deployment may have them: a LANGUAGES list, only a single
\* LANGUAGE, or neither
SettingsChoices ==
    { [LANGUAGES |-> << <<"en", "English">>, <<"de", "German">> >>, LANGUAGE |-> ""],
      [LANGUAGES |-> <<>>, LANGUAGE |-> "de"],
      [LANGUAGES |-> <<>>, LANGUAGE |-> ""] }

Blank ==
    [id |-> 0, author |-> 0, owner |-> "u1", namespace |-> TRUE,
     publishing_date |-> 0, lang |-> "en", title |-> <<>>, name |-> NoName,
     slug |-> NoSlug]

Min(S) == CHOOSE x \in S : \A y \in S : x <= y

(***************************************************************************)
(* Module initialisation, lines 27-33                                      *)
(***************************************************************************)
Init ==
    /\ settings \in SettingsChoices
    /\ module = "unloaded"
    /\ LANGUAGE_CODES = <<>>
    /\ persons = <<>>
    /\ articles = {}
    /\ translations = {}
    /\ obj = [p \in Objs |-> Blank]
    /\ pc = [p \in Objs |-> "unborn"]
    /\ result = [p \in Objs |-> "none"]
    /\ attempts = [p \in Objs |-> <<>>]
    /\ queried = [p \in Objs |-> <<>>]
    /\ given = [p \in Objs |-> [id |-> 0, author |-> 0, slug |-> NoSlug]]
    /\ met = {}
    /\ shown = <<>>
    /\ allocated = {}

\* mutant: a module that falls back to a default language when none is
\* configured
ImportModuleWithDefault ==
    /\ module = "unloaded"
    /\ LANGUAGE_CODES' =
          IF settings.LANGUAGES # <<>>
          THEN [i \in 1..Len(settings.LANGUAGES) |-> settings.LANGUAGES[i][1]]
          ELSE IF settings.LANGUAGE # "" THEN <<settings.LANGUAGE>>
          ELSE <<"en">>
    /\ module' = "loaded"
    /\ UNCHANGED <<settings, persons, articles, translations, obj, pc, result,
                   attempts, queried, given, met, shown, allocated>>

ImportModule ==
    /\ module = "unloaded"
    /\ IF settings.LANGUAGES # <<>>
       THEN /\ LANGUAGE_CODES' = [i \in 1..Len(settings.LANGUAGES) |->
                                      settings.LANGUAGES[i][1]]
            /\ module' = "loaded"
       ELSE IF settings.LANGUAGE # ""
       THEN /\ LANGUAGE_CODES' = <<settings.LANGUAGE>>
            /\ module' = "loaded"
       ELSE /\ module' = "ImproperlyConfigured"
            /\ UNCHANGED LANGUAGE_CODES
    /\ UNCHANGED <<settings, persons, articles, translations, obj, pc, result,
                   attempts, queried, given, met, shown, allocated>>

(***************************************************************************)
(* Storage                                                                 *)
(***************************************************************************)
\* mutant: the translation table without its unique_together
SlugTakenUnconstrained(lang, slug, master) == FALSE

\* unique_together (language_code, slug) on the translation table, line 68
SlugTaken(lang, slug, master) ==
    \E t \in translations :
        /\ t.language_code = lang
        /\ t.slug = slug
        /\ t.master # master

\* mutant: only the missing namespace is an integrity error
IntegrityErrorOnNamespaceOnly(p) == ~obj[p].namespace

\* super(Article, self).save() raises IntegrityError: namespace is a
\* non-null foreign key (line 77), (language_code, slug) is unique (line 68)
IntegrityError(p) ==
    \/ ~obj[p].namespace
    \/ SlugTaken(obj[p].lang, obj[p].slug, p)

\* the rows after super(Article, self).save() of instance p went through
ArticlesAfter(p) ==
    {a \in articles : a.id # p} \cup
    {[id |-> p, author |-> obj[p].author, owner |-> obj[p].owner,
      publishing_date |-> obj[p].publishing_date]}

TranslationsAfter(p) ==
    {t \in translations : ~(t.master = p /\ t.language_code = obj[p].lang)} \cup
    {[master |-> p, language_code |-> obj[p].lang, title |-> obj[p].title,
      slug |-> obj[p].slug]}

\* one call of super(Article, self).save(): it writes and the save() call
\* returns, or it raises and the call goes on at `caught` (pc) with `raised`
\* (result) -- "idle" when the exception leaves save()
SuperSave(p, caught, raised) ==
    /\ attempts' = [attempts EXCEPT ![p] = Append(@, obj[p].slug)]
    /\ IF IntegrityError(p)
       THEN /\ pc' = [pc EXCEPT ![p] = caught]
            /\ result' = [result EXCEPT ![p] = raised]
            /\ UNCHANGED <<articles, translations, obj, allocated>>
       ELSE /\ articles' = ArticlesAfter(p)
            /\ allocated' =
                  (IF TranslationsAfter(p) = translations THEN allocated ELSE {})
                  \cup (IF given[p].slug = NoSlug THEN {p} ELSE {})
            /\ translations' = TranslationsAfter(p)
            /\ obj' = [obj EXCEPT ![p].id = p]
            /\ pc' = [pc EXCEPT ![p] = "idle"]
            /\ result' = [result EXCEPT ![p] = "ok"]
    /\ UNCHANGED <<settings, module, LANGUAGE_CODES, persons, queried, given,
                   met, shown>>

(***************************************************************************)
(* Article.save, lines 102-143                                             *)
(***************************************************************************)
\* Person.objects.get_or_create(user=owner)[0], lines 105-110
PersonsOf(user) == {i \in 1..Len(persons) : persons[i].user = user}

\* mutant: create instead of get_or_create
PersonsAfterCreate(user) == Append(persons, [user |-> user])

PersonsAfterGetOrCreate(user) ==
    IF PersonsOf(user) # {} THEN persons ELSE Append(persons, [user |-> user])

GetOrCreate(user) ==
    IF PersonsOf(user) # {} THEN Min(PersonsOf(user)) ELSE Len(persons) + 1

\* mutant: the author is derived from the owner even when one was given
AuthorAlwaysFromOwner(o) == GetOrCreate(o.owner)

\* lines 104-110: the author of instance o once save() has resolved it
ResolvedAuthor(o) == IF o.author = 0 THEN GetOrCreate(o.owner) ELSE o.author

\* lines 103-114 for the instance as it stands at the call (o): resolve the
\* author, then either take the explicit slug or slugify self.name
SaveBegin(p, o) ==
    LET o2 == [o EXCEPT !.author = ResolvedAuthor(o)]
    IN  /\ module = "loaded"
        /\ persons' = IF o.author = 0 THEN PersonsAfterGetOrCreate(o.owner)
                      ELSE persons
        /\ attempts' = [attempts EXCEPT ![p] = <<>>]
        /\ queried' = [queried EXCEPT ![p] = <<>>]
        /\ given' = [given EXCEPT ![p] =
                         [id |-> o.id, author |-> o.author, slug |-> o.slug]]
        /\ met' = met \cup
                  {{p, q} : q \in {r \in Objs \ {p} : pc[r] \notin {"unborn", "idle"}}}
        /\ IF o2.slug = NoSlug
           THEN IF o2.name = NoName
                THEN \* self.name raises AttributeError
                     /\ obj' = [obj EXCEPT ![p] = o2]
                     /\ pc' = [pc EXCEPT ![p] = "idle"]
                     /\ result' = [result EXCEPT ![p] = "AttributeError"]
                ELSE /\ obj' = [obj EXCEPT ![p] =
                                   [o2 EXCEPT !.slug = slugify(o2.name[1], 0)]]
                     /\ pc' = [pc EXCEPT ![p] = "base_write"]
                     /\ result' = [result EXCEPT ![p] = "running"]
           ELSE /\ obj' = [obj EXCEPT ![p] = o2]
                /\ pc' = [pc EXCEPT ![p] = "explicit_write"]
                /\ result' = [result EXCEPT ![p] = "running"]
        /\ shown' = <<>>
        /\ UNCHANGED <<settings, module, LANGUAGE_CODES, articles, translations,
                       allocated>>

\* save() of a newly constructed instance with the fields `in`
SaveNew(p, in) ==
    /\ pc[p] = "unborn"
    /\ \A q \in Objs : q < p => pc[q] # "unborn"
    /\ in.author \in 0..Len(persons)
    /\ SaveBegin(p, [Blank EXCEPT !.author = in.author, !.owner = in.owner,
                                  !.namespace = in.namespace,
                                  !.publishing_date = in.publishing_date,
                                  !.lang = in.lang, !.title = in.title,
                                  !.name = in.name, !.slug = in.slug])

\* mutant: save() goes into the slug allocation whatever slug the instance has
SaveAgainCleared(p, clear) ==
    /\ pc[p] = "idle"
    /\ SaveBegin(p, [obj[p] EXCEPT !.slug = NoSlug])

\* save() of an instance saved before, its slug kept or cleared first
SaveAgain(p, clear) ==
    /\ pc[p] = "idle"
    /\ SaveBegin(p, IF clear THEN [obj[p] EXCEPT !.slug = NoSlug] ELSE obj[p])

\* lines 115-118: the unsuffixed write; any IntegrityError is passed over
BaseWrite(p) ==
    /\ pc[p] = "base_write"
    /\ SuperSave(p, "query", "running")

\* mutant: the slugs fetched without exclude(id=self.id)
FetchedSlugsWithOwn(p, lang) ==
    {s \in {t.slug : t \in {u \in translations : u.language_code = lang}} :
        s # <<>> /\ StartsWith(s, obj[p].slug)}

\* lines 129-134 for one language
FetchedSlugs(p, lang) ==
    {s \in {t.slug : t \in {u \in translations :
                                /\ u.language_code = lang
                                /\ u.master # obj[p].id}} :
        s # <<>> /\ StartsWith(s, obj[p].slug)}

\* mutant: the counter is raised once more after a free candidate is found
RECURSIVE FirstFreeRaisedAgain(_, _, _)
FirstFreeRaisedAgain(name, slugs, i) ==
    IF slugify(name, i) \notin slugs THEN i + 1
    ELSE FirstFreeRaisedAgain(name, slugs, i + 1)

\* lines 135-141: the first counter from i on whose candidate is not fetched
RECURSIVE FirstFree(_, _, _)
FirstFree(name, slugs, i) ==
    IF slugify(name, i) \notin slugs THEN i ELSE FirstFree(name, slugs, i + 1)

\* lines 120-139: the first pass of `for lang in LANGUAGE_CODES` always
\* returns from inside `while True`, so only LANGUAGE_CODES[0] is fetched
QueryLang == LANGUAGE_CODES[1]

Query(p) ==
    /\ pc[p] = "query"
    /\ LET slugs == FetchedSlugs(p, QueryLang)
           i == FirstFree(obj[p].name[1], slugs, 1)
       IN  obj' = [obj EXCEPT ![p].slug = slugify(obj[p].name[1], i)]
    /\ queried' = [queried EXCEPT ![p] = Append(@, QueryLang)]
    /\ pc' = [pc EXCEPT ![p] = "suffix_write"]
    /\ UNCHANGED <<settings, module, LANGUAGE_CODES, persons, articles,
                   translations, result, attempts, given, met, shown,
                   allocated>>

\* mutant: a rejected suffixed write sends the call back to the search
SuffixWriteRetried(p) ==
    /\ pc[p] = "suffix_write"
    /\ SuperSave(p, "query", "running")

\* line 140
SuffixWrite(p) ==
    /\ pc[p] = "suffix_write"
    /\ SuperSave(p, "idle", "IntegrityError")

\* mutant: the explicit-slug write treated like the unsuffixed one
ExplicitWriteCaught(p) ==
    /\ pc[p] = "explicit_write"
    /\ SuperSave(p, "query", "running")

\* line 143
ExplicitWrite(p) ==
    /\ pc[p] = "explicit_write"
    /\ SuperSave(p, "idle", "IntegrityError")

(***************************************************************************)
(* LatestEntriesPlugin.get_articles, lines 166-168                         *)
(***************************************************************************)
\* Article.objects.active_translations(): the articles with a translation
\* in one of the active languages (the current language and its fallbacks)
ActiveTranslations(active) ==
    {a \in articles :
        \E t \in translations : t.master = a.id /\ t.language_code \in active}

\* mutant: ordering = ['publishing_date']
FirstInAscendingOrdering(S) ==
    {a \in S : \A b \in S : a.publishing_date <= b.publishing_date}

\* Meta.ordering = ['-publishing_date'], line 86: the rows of S that may
\* come first; rows of equal date come in any order
FirstInOrdering(S) ==
    {a \in S : \A b \in S : a.publishing_date >= b.publishing_date}

\* the sequences a query over the rows S may come back as
RECURSIVE QueryResults(_)
QueryResults(S) ==
    IF S = {} THEN {<<>>}
    ELSE UNION { {<<a>> \o rest : rest \in QueryResults(S \ {a})} :
                 a \in FirstInOrdering(S) }

\* rows[:n]
Slice(rows, n) == SubSeq(rows, 1, IF n < Len(rows) THEN n ELSE Len(rows))

GetArticles(n, active) ==
    /\ module = "loaded"
    /\ \E rows \in QueryResults(ActiveTranslations(active)) :
          shown' = [latest_entries |-> n, active |-> active,
                    articles |-> Slice(rows, n)]
    /\ UNCHANGED <<settings, module, LANGUAGE_CODES, persons, articles,
                   translations, obj, pc, result, attempts, queried, given, met,
                   allocated>>

NoSaveRunning == \A q \in Objs : pc[q] \in {"unborn", "idle"}

(***************************************************************************)
(* Specifications                                                          *)
(***************************************************************************)
\* the fields a new instance is given, when the slug is what is looked at
Fields(lang, title, name, slug, owner, author, namespace, publishing_date) ==
    [lang |-> lang, title |-> title, name |-> name, slug |-> slug,
     owner |-> owner, author |-> author, namespace |-> namespace,
     publishing_date |-> publishing_date]

\* no slug and a name equal to the title, or a slug set by hand; and in one
\* language a name that is not the title, and no name at all
SlugInputs ==
    { Fields(l, TitleStory, f[1], f[2], "u1", 0, TRUE, 1) :
        l \in Langs,
        f \in { <<<<TitleStory>>, NoSlug>>, <<NoName, TitleStory1>> } }
    \cup { Fields("en", TitleStory1, <<TitleStory>>, NoSlug, "u1", 0, TRUE, 1),
           Fields("en", TitleStory, NoName, NoSlug, "u1", 0, TRUE, 1) }

\* owners and given authors varied, the title the same
PeopleInputs ==
    { Fields(l, TitleStory, <<TitleStory>>, NoSlug, u, a, TRUE, 1) :
        l \in Langs, u \in Users, a \in 0..1 }

\* languages and publishing dates varied, the title the same
PluginInputs ==
    { Fields(l, TitleStory, <<TitleStory>>, NoSlug, "u1", 0, TRUE, d) :
        l \in Langs, d \in 1..MaxDate }

\* the same title with no slug, or a slug set by hand; and an article that
\* was given no namespace
ConcInputs ==
    { Fields(l, TitleStory, f[1], f[2], "u1", 0, TRUE, 1) :
        l \in Langs,
        f \in { <<<<TitleStory>>, NoSlug>>, <<NoName, TitleStory1>> } }
    \cup { Fields("en", TitleStory, <<TitleStory>>, NoSlug, "u1", 0, FALSE, 1) }

Counts == 0..MaxCount \cup {DefaultLatestEntries}

ActiveChoices == SUBSET Langs \ {{}}

SaveStep(p) ==
    \/ BaseWrite(p)
    \/ Query(p)
    \/ SuffixWrite(p)
    \/ ExplicitWrite(p)

\* saves one after another
Next ==
    \/ ImportModule
    \/ \E p \in Objs : \E in \in SlugInputs : NoSaveRunning /\ SaveNew(p, in)
    \/ \E p \in Objs : \E clear \in BOOLEAN : NoSaveRunning /\ SaveAgain(p, clear)
    \/ \E p \in Objs : SaveStep(p)

Spec == Init /\ [][Next]_vars

\* saves that interleave: every database operation of a call is a step
NextConc ==
    \/ ImportModule
    \/ \E p \in Objs : \E in \in ConcInputs : SaveNew(p, in)
    \/ \E p \in Objs : \E clear \in BOOLEAN : SaveAgain(p, clear)
    \/ \E p \in Objs : SaveStep(p)

SpecConc == Init /\ [][NextConc]_vars

\* articles of one language and one title: no slug, or a slug set by hand
\* that is the first suffixed candidate of the title
RaceInputs ==
    { Fields("en", TitleStory, <<TitleStory>>, NoSlug, "u1", 0, TRUE, 1),
      Fields("en", TitleStory, NoName, TitleStory1, "u1", 0, TRUE, 1) }

\* saves of such articles that interleave, and saves of them made again
NextRace ==
    \/ ImportModule
    \/ \E p \in Objs : \E in \in RaceInputs : SaveNew(p, in)
    \/ \E p \in Objs : SaveAgain(p, FALSE)
    \/ \E p \in Objs : SaveStep(p)

SpecRace == Init /\ [][NextRace]_vars

\* articles of one title and no slug in each language
RaceLangInputs ==
    { Fields(l, TitleStory, <<TitleStory>>, NoSlug, "u1", 0, TRUE, 1) : l \in Langs }

\* saves of such articles that interleave, and saves of them made again
\* with the slug they were left with
NextRaceLangs ==
    \/ ImportModule
    \/ \E p \in Objs : \E in \in RaceLangInputs : SaveNew(p, in)
    \/ \E p \in Objs : SaveAgain(p, FALSE)
    \/ \E p \in Objs : SaveStep(p)

SpecRaceLangs == Init /\ [][NextRaceLangs]_vars

\* saves one after another of articles of several owners
NextPeople ==
    \/ ImportModule
    \/ \E p \in Objs : \E in \in PeopleInputs : NoSaveRunning /\ SaveNew(p, in)
    \/ \E p \in Objs : NoSaveRunning /\ SaveAgain(p, FALSE)
    \/ \E p \in Objs : SaveStep(p)

SpecPeople == Init /\ [][NextPeople]_vars

\* the plugin's specification starts with a LANGUAGES list configured
InitPlugin == Init /\ settings.LANGUAGES # <<>>

\* saves one after another, and the plugin rendered once between them
NextPlugin ==
    \/ ImportModule
    \/ \E p \in Objs : \E in \in PluginInputs : NoSaveRunning /\ SaveNew(p, in)
    \/ \E p \in Objs : NoSaveRunning /\ SaveAgain(p, FALSE)
    \/ \E p \in Objs : SaveStep(p)
    \/ \E n \in Counts : \E active \in ActiveChoices :
          NoSaveRunning /\ shown = <<>> /\ GetArticles(n, active)

SpecPlugin == InitPlugin /\ [][NextPlugin]_vars

\* the first article is given any title; a later one the title or the slug
\* of an instance saved before it, so that slugs are slugified again
TitlesNow ==
    IF \A q \in Objs : pc[q] = "unborn" THEN Titles
    ELSE UNION {{obj[q].title, obj[q].slug} : q \in {r \in Objs : pc[r] # "unborn"}}

TitleInputs ==
    { Fields("en", t, <<t>>, NoSlug, "u1", 0, TRUE, 1) : t \in TitlesNow }

\* saves one after another of articles whose titles are slugified
NextSlugify ==
    \/ ImportModule
    \/ \E p \in Objs : \E in \in TitleInputs : NoSaveRunning /\ SaveNew(p, in)
    \/ \E p \in Objs : BaseWrite(p) \/ Query(p) \/ SuffixWrite(p)

SpecSlugify == Init /\ [][NextSlugify]_vars

(***************************************************************************)
(* Properties                                                              *)
(***************************************************************************)
Finished(p) == pc[p] = "idle" /\ result[p] # "none"

RowOf(p) == {t \in translations : t.master = p /\ t.language_code = obj[p].lang}

\* C1: after any sequence of saves made one after another, with or without
\* a slug set beforehand, no two distinct articles with a translation in the
\* same language hold equal slugs in it.
C1_SlugUnique ==
    \A t1, t2 \in translations :
        (t1.language_code = t2.language_code /\ t1.master # t2.master)
            => t1.slug # t2.slug

\* two articles of one language are stored, one saved with its slug set and
\* one that was given its slug by the suffix search after a rejected write
C1_Witness ==
    \E p, q \in Objs :
        /\ p # q
        /\ Finished(p) /\ Finished(q)
        /\ result[p] = "ok" /\ result[q] = "ok"
        /\ obj[p].lang = obj[q].lang
        /\ given[p].slug # NoSlug
        /\ given[q].slug = NoSlug
        /\ Len(attempts[q]) = 2

\* C5: a save() of an article whose slug is set makes exactly one write,
\* with that slug, never fetches the existing slugs nor searches a suffix,
\* never changes the slug, and hands a rejected write to its caller.
C5_ExplicitSlugBypasses ==
    /\ [](\A p \in Objs :
            (given[p].slug # NoSlug /\ result[p] # "none") =>
                /\ pc[p] \in {"explicit_write", "idle"}
                /\ queried[p] = <<>>
                /\ obj[p].slug = given[p].slug
                /\ pc[p] = "explicit_write" => attempts[p] = <<>>
                /\ pc[p] = "idle" =>
                      /\ attempts[p] = <<given[p].slug>>
                      /\ result[p] \in {"ok", "IntegrityError"}
                      /\ result[p] = "ok" =>
                            \E t \in RowOf(p) : t.slug = given[p].slug)
    /\ [][\A p \in Objs :
            (pc[p] = "explicit_write" /\ pc'[p] # "explicit_write") =>
                /\ pc'[p] = "idle"
                /\ IntegrityError(p) =>
                      /\ result'[p] = "IntegrityError"
                      /\ UNCHANGED <<articles, translations>>
                /\ ~IntegrityError(p) => result'[p] = "ok"]_vars

\* a save() with the slug set was rejected, and that slug is what the title
\* of another stored article slugifies to
C5_Witness ==
    \E p, q \in Objs :
        /\ p # q
        /\ Finished(p)
        /\ given[p].slug # NoSlug
        /\ result[p] = "IntegrityError"
        /\ RowOf(q) # {}
        /\ given[p].slug = default_slugify(obj[q].title)

\* the instance's name attribute is set and is its title, so that what
\* save() slugifies is the title
Titled(p) == obj[p].name = <<obj[p].title>>

\* the language is one of the configured ones
Configured(lang) == \E i \in DOMAIN LANGUAGE_CODES : LANGUAGE_CODES[i] = lang

\* C2: for every configured language, a save() made alone of an article
\* with a title and no slug ends with a slug stored for the article that no
\* other article of that language holds; the suffixed candidate it writes is
\* never held by another article of the language being saved, so the save
\* does not fail on a slug collision.
C2_AllocatorEveryLanguage ==
    \A p \in Objs :
        (/\ given[p].slug = NoSlug
         /\ Titled(p)
         /\ obj[p].namespace
         /\ Configured(obj[p].lang)) =>
            /\ pc[p] = "suffix_write" =>
                  ~SlugTaken(obj[p].lang, obj[p].slug, p)
            /\ Finished(p) =>
                  /\ result[p] = "ok"
                  /\ \E t \in RowOf(p) :
                        ~SlugTaken(t.language_code, t.slug, p)

\* the slug the least-suffix rule gives article p: the base when no other
\* article of the language holds it, else the base with the least free counter
LeastFreeSlug(p, base) ==
    IF ~SlugTaken(obj[p].lang, base, p) THEN base
    ELSE LET k == Min({i \in 1..(Cardinality(translations) + 1) :
                         ~SlugTaken(obj[p].lang, base \o <<"_">> \o Decimal(i), p)})
         IN  base \o <<"_">> \o Decimal(k)

\* C3: a save() with no slug, made alone, gives the article the base slug
\* of its title when no other article of the language holds it, and else
\* base_k for the least k >= 1 that no other article of the language holds
\* (base, base_1, base_2 for three articles of one title).
C3_LeastSuffix ==
    [][\A p \in Objs :
          (/\ given[p].slug = NoSlug
           /\ Titled(p)
           /\ obj[p].namespace
           /\ pc[p] \in {"base_write", "suffix_write"}
           /\ pc'[p] = "idle") =>
              /\ result'[p] = "ok"
              /\ obj'[p].slug =
                    LeastFreeSlug(p, default_slugify(obj[p].title))]_vars

\* C7: with no slug set, the first slug save() tries to store is slugify
\* of the article's title, and every suffixed candidate is that value
\* followed by "_" and the counter.
C7_BaseFromTitle ==
    \A p \in Objs :
        (given[p].slug = NoSlug /\ result[p] # "none") =>
            /\ Finished(p) => attempts[p] # <<>>
            /\ attempts[p] # <<>> =>
                  attempts[p][1] = default_slugify(obj[p].title)
            /\ Len(attempts[p]) >= 2 =>
                  \E k \in 1..(MaxArticles + 1) :
                      attempts[p][2] =
                          default_slugify(obj[p].title) \o <<"_">> \o Decimal(k)

\* C4: when the save() calls of two new articles with the same title and no
\* slug in the same language interleave, exactly one stores the unsuffixed
\* base, and the other has that write rejected, goes through the suffix
\* search and ends with a suffixed slug stored.
C4_TwoWriterRace ==
    \A p, q \in Objs :
        LET base == default_slugify(obj[p].title)
        IN  (/\ p # q
             /\ {p, q} \in met
             /\ \A r \in Objs \ {p, q} : {p, r} \notin met /\ {q, r} \notin met
             /\ Finished(p) /\ Finished(q)
             /\ given[p].id = 0 /\ given[q].id = 0
             /\ given[p].slug = NoSlug /\ given[q].slug = NoSlug
             /\ Titled(p) /\ Titled(q)
             /\ obj[p].namespace /\ obj[q].namespace
             /\ obj[p].title = obj[q].title
             /\ obj[p].lang = obj[q].lang
             /\ Configured(obj[p].lang)
             /\ \A t \in translations :
                   (t.language_code = obj[p].lang /\ t.slug = base)
                       => t.master \in {p, q}) =>
                \E w \in {p, q} :
                    LET l == CHOOSE x \in {p, q} : x # w
                    IN  /\ attempts[w] = <<base>>
                        /\ result[w] = "ok"
                        /\ \E t \in RowOf(w) : t.slug = base
                        /\ Len(attempts[l]) = 2
                        /\ attempts[l][1] = base
                        /\ result[l] = "ok"
                        /\ \E t \in RowOf(l) :
                              t.slug = attempts[l][2] /\ t.slug # base

\* C6: with no slug set, an integrity violation of the first write other
\* than a collision of the unsuffixed slug reaches the caller as it is and
\* is followed by no second write.
C6_OtherErrorsPropagate ==
    \A p \in Objs :
        (/\ given[p].slug = NoSlug
         /\ ~obj[p].namespace
         /\ attempts[p] # <<>>
         /\ ~SlugTaken(obj[p].lang, attempts[p][1], p)) =>
            /\ Finished(p)
            /\ result[p] = "IntegrityError"
            /\ Len(attempts[p]) = 1
            /\ queried[p] = <<>>

\* C8: every stored article has an author; when none was given it is the
\* Person of the article's owner, and a given author is left as it was.
C8_AuthorInvariant ==
    /\ \A a \in articles : a.author \in 1..Len(persons)
    /\ \A p \in Objs :
          result[p] # "none" =>
              /\ obj[p].author \in 1..Len(persons)
              /\ given[p].author = 0 =>
                    persons[obj[p].author].user = obj[p].owner
              /\ given[p].author # 0 => obj[p].author = given[p].author
              /\ (Finished(p) /\ result[p] = "ok") =>
                    \E a \in articles : a.id = p /\ a.author = obj[p].author

\* an article saved with no author and a new article saved with an author
\* who is not the Person of its owner are both stored
C8_Witness ==
    \E p, q \in Objs :
        /\ p # q
        /\ Finished(p) /\ result[p] = "ok" /\ given[p].author = 0
        /\ Finished(q) /\ result[q] = "ok"
        /\ given[q].id = 0 /\ given[q].author # 0
        /\ persons[obj[q].author].user # obj[q].owner

\* C9: after any sequence of save() calls there is at most one Person per
\* owner, and a save() of an article saved before creates no Person.
C9_OneAuthorPerUser ==
    /\ [](\A i, j \in 1..Len(persons) :
            persons[i].user = persons[j].user => i = j)
    /\ [][\A p \in Objs :
            (pc[p] = "idle" /\ obj[p].id # 0 /\ pc'[p] # "idle") =>
                persons' = persons]_vars

\* two articles of one owner and an article of another owner are stored,
\* no author was given, and one of them was saved a second time
C9_Witness ==
    /\ Len(persons) = 2
    /\ \E p, q, r \in Objs :
          /\ p # q /\ q # r /\ p # r
          /\ \A x \in {p, q, r} : Finished(x) /\ result[x] = "ok"
          /\ obj[p].owner = obj[q].owner
          /\ obj[r].owner # obj[p].owner
          /\ articles # {} /\ \A a \in articles : persons[a.author].user = a.owner
          /\ given[p].id # 0

NoLanguageConfigured == settings.LANGUAGES = <<>> /\ settings.LANGUAGE = ""

\* C11: with no language configured the module never loads, its import
\* ends with ImproperlyConfigured and no save() ever runs or stores
\* anything; a module that did load has a non-empty LANGUAGE_CODES, and
\* save() runs only in a loaded module.
C11_FailFast ==
    /\ NoLanguageConfigured =>
          /\ module \in {"unloaded", "ImproperlyConfigured"}
          /\ LANGUAGE_CODES = <<>>
    /\ module = "ImproperlyConfigured" => NoLanguageConfigured
    /\ module = "loaded" => LANGUAGE_CODES # <<>>
    /\ module # "loaded" =>
          /\ \A p \in Objs :
                pc[p] = "unborn" /\ result[p] = "none" /\ attempts[p] = <<>>
          /\ persons = <<>> /\ articles = {} /\ translations = {}

\* the import was attempted with no language configured and has failed
C11_Witness == NoLanguageConfigured /\ module = "ImproperlyConfigured"

\* C12: Article.slugify gives one value for one title, and applied to a
\* value it returned -- the slug of a title, or that slug with the counter
\* the suffix search appended -- it returns that value unchanged.
C12_SlugifyIdempotent ==
    \A p \in Objs :
        (result[p] # "none" /\ obj[p].name # NoName) =>
            /\ slugify(slugify(obj[p].title, 0), 0) = slugify(obj[p].title, 0)
            /\ slugify(obj[p].slug, 0) = obj[p].slug
            /\ \A k \in 1..Len(attempts[p]) :
                  slugify(attempts[p][k], 0) = attempts[p][k]
            /\ \A q \in Objs :
                  (obj[q].name = obj[p].name /\ given[p].slug = NoSlug
                   /\ given[q].slug = NoSlug
                   /\ attempts[p] # <<>> /\ attempts[q] # <<>>) =>
                      attempts[p][1] = attempts[q][1]

\* a title that slugify changes was saved, a second article was titled with
\* the first one's slug, and its suffixed candidate was written
C12_Witness ==
    \E p, q \in Objs :
        /\ p # q
        /\ Finished(p) /\ Finished(q)
        /\ Len(obj[p].title) = MaxLen
        /\ obj[p].slug # obj[p].title
        /\ \E t \in RowOf(p) : t.slug = obj[q].title
        /\ Len(attempts[q]) = 2
        /\ attempts[q][1] = obj[q].title
        /\ attempts[q][2] = obj[q].title \o <<"_", "1">>

\* C13: a save() call makes at most two writes, the unsuffixed slug and
\* then one suffixed candidate; when the suffixed write is rejected the call
\* ends there with IntegrityError, the candidate kept and nothing stored.
\* (That two interleaved calls pick one candidate and the second to write is
\* rejected is the state C13_Witness describes.)
C13_SuffixStepNotRetried ==
    /\ [](\A p \in Objs :
            /\ Len(attempts[p]) <= 2
            /\ Len(attempts[p]) = 2 =>
                  /\ given[p].slug = NoSlug
                  /\ obj[p].name # NoName
                  /\ attempts[p][1] = slugify(obj[p].name[1], 0)
                  /\ \E k \in 1..(MaxArticles + 1) :
                        attempts[p][2] = slugify(obj[p].name[1], k)
                  /\ Finished(p))
    /\ [][\A p \in Objs :
            (pc[p] = "suffix_write" /\ pc'[p] # "suffix_write") =>
                /\ pc'[p] = "idle"
                /\ attempts'[p] = Append(attempts[p], obj[p].slug)
                /\ IntegrityError(p) =>
                      /\ result'[p] = "IntegrityError"
                      /\ obj'[p].slug = obj[p].slug
                      /\ UNCHANGED <<articles, translations>>]_vars

\* the save() calls of three new articles of one title and one language
\* have overlapped; one holds the base, the two others picked the same
\* suffixed candidate, one of them stored it and the other was rejected
C13_Witness ==
    \E p, q, r \in Objs :
        /\ p # q /\ q # r /\ p # r
        /\ {{p, q}, {q, r}, {p, r}} \subseteq met
        /\ \A x \in {p, q, r} :
              /\ Finished(x)
              /\ given[x].id = 0 /\ given[x].slug = NoSlug
              /\ Titled(x) /\ obj[x].namespace
              /\ obj[x].title = obj[p].title /\ obj[x].lang = obj[p].lang
        /\ attempts[p] = <<default_slugify(obj[p].title)>>
        /\ result[p] = "ok"
        /\ Len(attempts[q]) = 2 /\ Len(attempts[r]) = 2
        /\ attempts[q][2] = attempts[r][2]
        /\ result[q] = "ok"
        /\ \E t \in RowOf(q) : t.slug = attempts[r][2]
        /\ result[r] = "IntegrityError"
        /\ obj[r].id = 0

\* the database operations a save() call at this point has yet to make, at most
StepsLeft(at) ==
    CASE at = "base_write" -> 3
      [] at = "query" -> 2
      [] at = "suffix_write" -> 1
      [] at = "explicit_write" -> 1
      [] OTHER -> 0

\* C14: a save() call under way stands at one of its database operations
\* (the search with a name to slugify and a language to fetch), every step
\* brings it nearer its end, and it ends with its slug stored or with an
\* error; the suffix search ends at the first counter k >= 1 whose candidate
\* is not among the fetched slugs, and k is at most their number plus one.
C14_SaveTerminates ==
    /\ [](\A p \in Objs :
            /\ pc[p] \in {"unborn", "idle", "base_write", "query",
                         "suffix_write", "explicit_write"}
            /\ pc[p] = "query" =>
                  obj[p].name # NoName /\ LANGUAGE_CODES # <<>>
            /\ Finished(p) =>
                  /\ result[p] \in {"ok", "IntegrityError", "AttributeError"}
                  /\ result[p] = "ok" => \E t \in RowOf(p) : t.slug = obj[p].slug)
    /\ [][\A p \in Objs :
            /\ (pc[p] \notin {"unborn", "idle"} /\ pc'[p] # pc[p]) =>
                  StepsLeft(pc'[p]) < StepsLeft(pc[p])
            /\ (pc[p] = "query" /\ pc'[p] # "query") =>
                  LET fetched == FetchedSlugs(p, QueryLang)
                      name == obj[p].name[1]
                  IN  \E k \in 1..(Cardinality(fetched) + 1) :
                          /\ obj'[p].slug = slugify(name, k)
                          /\ slugify(name, k) \notin fetched
                          /\ \A j \in 1..(k - 1) : slugify(name, j) \in fetched]_vars

\* other articles of the fetched language hold the base and the first
\* suffixed slug, the suffix search went up to counter 2, and its candidate
\* was stored
C14_Witness ==
    \E p \in Objs :
        /\ Finished(p) /\ result[p] = "ok"
        /\ Len(attempts[p]) = 2
        /\ attempts[p][2] = slugify(obj[p].name[1], 2)
        /\ \A k \in 0..1 :
              SlugTaken(QueryLang, slugify(obj[p].name[1], k), p)

\* C15: however save() calls interleave, in every state each slug of a
\* language is stored for at most one article, and a call that ended with
\* IntegrityError has stored nothing: a new article it was called for has
\* no row, and no row holds its rejected slug for it.
C15_UniqueUnderRaces ==
    /\ \A lang \in Langs : \A p, q \in Objs :
          p # q =>
              {t.slug : t \in {u \in translations :
                                  u.master = p /\ u.language_code = lang}}
              \cap
              {t.slug : t \in {u \in translations :
                                  u.master = q /\ u.language_code = lang}} = {}
    /\ \A p \in Objs :
          (Finished(p) /\ result[p] = "IntegrityError") =>
              /\ obj[p].id = given[p].id
              /\ given[p].id = 0 =>
                    /\ \A t \in translations : t.master # p
                    /\ \A a \in articles : a.id # p

\* two overlapping save() calls picked one candidate; it is stored once,
\* for the one that wrote first, and the other call was rejected
C15_Witness ==
    \E q, r \in Objs :
        /\ q # r
        /\ {q, r} \in met
        /\ Finished(q) /\ Finished(r)
        /\ given[q].slug = NoSlug /\ given[r].slug = NoSlug
        /\ obj[q].slug = obj[r].slug
        /\ obj[q].lang = obj[r].lang
        /\ result[q] = "ok"
        /\ result[r] = "IntegrityError"
        /\ Cardinality({t \in translations :
                           /\ t.language_code = obj[r].lang
                           /\ t.slug = obj[r].slug}) = 1

\* C16: when an article whose stored slug save() allocated is saved again
\* with the slug cleared, no row of another article written in between,
\* the call ends well with the slug that was stored, and the rows are as
\* they were.
C16_ClearedSlugComesBack ==
    [][\A p \in Objs :
          (/\ p \in allocated
           /\ given[p].id # 0
           /\ given[p].slug = NoSlug
           /\ pc[p] \in {"base_write", "suffix_write"}
           /\ pc'[p] = "idle") =>
              /\ result'[p] = "ok"
              /\ \E t \in RowOf(p) : obj'[p].slug = t.slug
              /\ translations' = translations]_vars

\* an article that holds a suffixed slug from the allocator was saved again
\* with its slug cleared: the base was rejected, the search was run, and
\* the article has the slug it had
C16_Witness ==
    \E p \in Objs :
        /\ p \in allocated
        /\ Finished(p) /\ result[p] = "ok"
        /\ given[p].id # 0
        /\ given[p].slug = NoSlug
        /\ Len(attempts[p]) = 2
        /\ \E t \in RowOf(p) : t.slug = attempts[p][2]
        /\ \E q \in Objs \ {p} :
              \E t \in RowOf(q) :
                  StartsWith(t.slug, attempts[p][1]) /\ t.slug # attempts[p][1]

\* the last save() of p had no slug to start with and its suffixed write
\* was rejected
FailedAtSuffix(p) ==
    /\ Finished(p)
    /\ result[p] = "IntegrityError"
    /\ given[p].slug = NoSlug
    /\ Len(attempts[p]) = 2

\* the last save() of p was rejected and p has a slug
HoldsRejectedSlug(p) ==
    /\ Finished(p)
    /\ result[p] = "IntegrityError"
    /\ obj[p].slug # NoSlug

\* C17: after a save() that failed at its suffixed write the instance has
\* the rejected candidate as its slug; from then on no save() of the
\* instance reaches the unsuffixed write or the suffix search again: each
\* starts at the explicit write with that same slug, writes it once, and is
\* rejected again, the slug kept, whenever another article of the language
\* holds it.
C17_RejectedCandidateSticks ==
    /\ [](\A p \in Objs :
            FailedAtSuffix(p) =>
                /\ obj[p].slug = attempts[p][2]
                /\ HoldsRejectedSlug(p)
                /\ [](pc[p] \notin {"base_write", "query", "suffix_write"}))
    /\ [][\A p \in Objs :
            /\ (HoldsRejectedSlug(p) /\ pc'[p] # "idle") =>
                  /\ pc'[p] = "explicit_write"
                  /\ given'[p].slug = obj[p].slug
                  /\ obj'[p].slug = obj[p].slug
            /\ (pc[p] = "explicit_write" /\ pc'[p] # "explicit_write") =>
                  /\ pc'[p] = "idle"
                  /\ attempts'[p] = <<obj[p].slug>>
                  /\ queried'[p] = <<>>
                  /\ obj'[p].slug = obj[p].slug
                  /\ SlugTaken(obj[p].lang, obj[p].slug, p) =>
                        /\ result'[p] = "IntegrityError"
                        /\ translations' = translations]_vars

\* an instance given a title and no slug, never stored, was saved again
\* with the first suffixed candidate as its slug and rejected again
C17_Witness ==
    \E p \in Objs :
        /\ obj[p].name # NoName
        /\ obj[p].id = 0
        /\ HoldsRejectedSlug(p)
        /\ given[p].slug = slugify(obj[p].name[1], 1)
        /\ attempts[p] = <<given[p].slug>>
        /\ queried[p] = <<>>
        /\ SlugTaken(obj[p].lang, obj[p].slug, p)

====
